---- MODULE Spec2Model ----
(***************************************************************************)
(* Trading-cycle execution model of src/src/lib/agents/execution.ts:       *)
(* runAgentCycle, runTradingCycle and startScheduler, as a state machine   *)
(* of the JavaScript event loop.  One action is one run-to-completion      *)
(* segment of the code: a synchronous call, or the continuation that runs  *)
(* when an awaited promise settles.                                        *)
(*                                                                         *)
(* Not modelled: wall-clock values (CycleResult.cycleMs, lastUpdated) and  *)
(* the console output.                                                     *)
(***************************************************************************)
EXTENDS Integers, Sequences, FiniteSets, TLC

\* ------------------------------------------------------------------ bounds
NumAgents == 2      \* size of the fixed roster
MaxMarkets == 1     \* longest markets list fetchAllMarkets returns
MaxTicks == 2       \* timer ticks observed
MaxStops == 2       \* calls of the stop function observed
MaxDirect == 2      \* direct runTradingCycle calls observed

\* --------------------------------------------------------------- constants
DefaultIntervalMs == 60000

Null == "null"
NoError == "none"

\* The places a trading cycle can run in: the one started by the scheduler's
\* runCycle, one started by a direct runTradingCycle call, and one started
\* by a further direct call made while the first is in flight.
Slots == {"sched", "direct", "again"}

Agents == 1..NumAgents

\* Object.keys(AGENT_PROFILES): the roster, in key order.
ALL_AGENT_IDS == [i \in Agents |-> 100 + i]

\* domain.ts: static thresholds per agent.
AGENT_PROFILES == [i \in Agents |-> [minVolume |-> 100 * i, minLiquidity |-> 50 * i]]

\* What getAgentProfile(agentId) can do: return the profile or throw.
ProfileOutcomes == {"ok", "throw"}

\* What updatePortfolioMetrics(portfolio, marketsMap) can do.
MetricsOutcomes == {"ok", "throw"}

\* What a fetcher's promise can settle to.
FetchOutcomes == {"ok", "throw"}

\* generateAgentTrades(agentId): a list of trades, of which only status is
\* read here, or a failure.
TradeLists == {<<>>, <<"OPEN", "CLOSED", "OPEN">>}

\* The k-th market of the catalogue the fetcher draws from.
Market(k) == [id |-> k, volumeUsd |-> 150 * k, liquidityUsd |-> 60 * k,
              price |-> 40 + 10 * k]

\* fetchAllMarkets(): the lists it can resolve to.
MarketLists == {[k \in 1..n |-> Market(k)] : n \in 0..MaxMarkets}

\* intervalMs arguments of startScheduler / runTradingCycle.
Intervals == {1000, DefaultIntervalMs}

VARIABLES
  started,      \* startScheduler has been called
  intervalId,   \* the closure's intervalId: Null or "timer"
  timerMs,      \* the period given to setInterval (0: no timer was created)
  isRunning,    \* the closure's isRunning flag
  ticks,        \* timer ticks fired so far
  stopCalls,    \* calls of the returned stop function so far
  stoppedAt,    \* phase the scheduler's cycle was in at the first stop call
  schedStarts,  \* runTradingCycle calls made by runCycle so far
  active,       \* runTradingCycle calls made by runCycle and not yet settled
  directCalls,  \* direct runTradingCycle calls so far
  cycle,        \* per slot: the runTradingCycle invocation
  agents,       \* per slot, per roster index: the runAgentCycle invocation
  calls,        \* per slot: collaborator calls made by the invocation
  persist,      \* a persistence adapter called on its own: store and last call
  unit,         \* a pure function called on its own: inputs and output
  schedulers    \* per startScheduler call: the locals of its closure

\* The variables of the calls made outside a trading cycle.
harnessVars == <<persist, unit, schedulers>>

vars == <<started, intervalId, timerMs, isRunning, ticks, stopCalls, stoppedAt,
          schedStarts, active, directCalls, cycle, agents, calls, persist, unit,
          schedulers>>

schedVars == <<started, intervalId, timerMs, isRunning, ticks, stopCalls,
               stoppedAt, schedStarts, active>>

\* ------------------------------------------------------------ pure helpers

\* trades.filter(t => t.status === status).length
RECURSIVE CountStatus(_, _)
CountStatus(trades, status) ==
  IF trades = <<>> THEN 0
  ELSE (IF Head(trades) = status THEN 1 ELSE 0) + CountStatus(Tail(trades), status)

\* The filter with both bounds exclusive.
IsCandidate_Exclusive(m, agent) ==
  /\ m.volumeUsd > agent.minVolume
  /\ m.liquidityUsd > agent.minLiquidity

\* m => { volume = m.volumeUsd >= agent.minVolume;
\*        liquidity = m.liquidityUsd >= agent.minLiquidity;
\*        return volume && liquidity }
IsCandidate(m, agent) ==
  /\ m.volumeUsd >= agent.minVolume
  /\ m.liquidityUsd >= agent.minLiquidity

\* markets.filter(m => volume && liquidity).length
RECURSIVE CandidateMarkets(_, _)
CandidateMarkets(markets, agent) ==
  IF markets = <<>> THEN 0
  ELSE (IF IsCandidate(Head(markets), agent) THEN 1 ELSE 0)
       + CandidateMarkets(Tail(markets), agent)

\* new Map(); for (const market of markets) marketsMap.set(market.id, market)
RECURSIVE BuildMarketsMap(_, _)
BuildMarketsMap(markets, map) ==
  IF markets = <<>> THEN map
  ELSE BuildMarketsMap(Tail(markets),
         [id \in DOMAIN map \cup {Head(markets).id} |->
            IF id = Head(markets).id THEN Head(markets) ELSE map[id]])

EmptyMap == [id \in {} |-> Null]

\* portfolio.ts createInitialPortfolio: zeroed P&L, configured capital.
StartingCapitalUsd == 3000

createInitialPortfolio(agentId) ==
  [agentId |-> agentId,
   startingCapitalUsd |-> StartingCapitalUsd,
   currentCapitalUsd |-> StartingCapitalUsd,
   realizedPnlUsd |-> 0,
   unrealizedPnlUsd |-> 0,
   maxEquityUsd |-> StartingCapitalUsd,
   maxDrawdownPct |-> 0,
   openPositions |-> EmptyMap]

\* getNoopPersistenceAdapter().getPortfolio: always null.
NoopGetPortfolio(agentId) == Null

\* The catch branch of runAgentCycle.
FailedResult(agentId, message) ==
  [agentId |-> agentId, success |-> FALSE, candidateMarkets |-> 0,
   newTrades |-> 0, closedTrades |-> 0, openPositions |-> 0,
   error |-> message]

\* A result whose openPositions adds the trades just opened.
SuccessResult_OpensPositions(agentId, candidates, trades, portfolio) ==
  [agentId |-> agentId, success |-> TRUE, candidateMarkets |-> candidates,
   newTrades |-> CountStatus(trades, "OPEN"),
   closedTrades |-> CountStatus(trades, "CLOSED"),
   openPositions |-> Cardinality(DOMAIN portfolio.openPositions)
                     + CountStatus(trades, "OPEN"),
   error |-> NoError]

\* The return at the end of the try block of runAgentCycle.
SuccessResult(agentId, candidates, trades, portfolio) ==
  [agentId |-> agentId, success |-> TRUE, candidateMarkets |-> candidates,
   newTrades |-> CountStatus(trades, "OPEN"),
   closedTrades |-> CountStatus(trades, "CLOSED"),
   openPositions |-> Cardinality(DOMAIN portfolio.openPositions),
   error |-> NoError]

Max(a, b) == IF a >= b THEN a ELSE b
Min(a, b) == IF a <= b THEN a ELSE b

\* Unrealized P&L of one open position at the market's current price.
PositionPnl(pos, market) ==
  IF pos.side = "YES" THEN (market.price - pos.entryPrice) * pos.size
  ELSE (pos.entryPrice - market.price) * pos.size

\* A position whose market is absent priced as if the market stood at 0.
PositionContribution_StaleAtZero(positions, marketsMap, id) ==
  IF id \in DOMAIN marketsMap
  THEN PositionPnl(positions[id], marketsMap[id])
  ELSE PositionPnl(positions[id], [price |-> 0])

\* What the position on market id adds to the unrealized P&L: its P&L at
\* the market's price, nothing when the market is absent from marketsMap.
PositionContribution(positions, marketsMap, id) ==
  IF id \in DOMAIN marketsMap
  THEN PositionPnl(positions[id], marketsMap[id])
  ELSE 0

\* Sum of PositionContribution over the open positions.
RECURSIVE UnrealizedPnl(_, _, _)
UnrealizedPnl(positions, marketsMap, ids) ==
  IF ids = {} THEN 0
  ELSE LET id == CHOOSE x \in ids : TRUE
       IN PositionContribution(positions, marketsMap, id)
          + UnrealizedPnl(positions, marketsMap, ids \ {id})

\* The equity computed without the realized P&L.
updatePortfolioMetrics_WithoutRealized(portfolio, marketsMap) ==
  LET unrealized == UnrealizedPnl(portfolio.openPositions, marketsMap,
                                  DOMAIN portfolio.openPositions)
      equity == portfolio.startingCapitalUsd + unrealized
      peak == Max(portfolio.maxEquityUsd, equity)
      drawdown == IF peak > 0 THEN ((equity - peak) * 100) \div peak ELSE 0
  IN [portfolio EXCEPT !.unrealizedPnlUsd = unrealized,
                       !.currentCapitalUsd = equity,
                       !.maxEquityUsd = peak,
                       !.maxDrawdownPct = Min(portfolio.maxDrawdownPct, drawdown)]

\* The drawdown of the latest call kept, not the lowest so far.
updatePortfolioMetrics_LatestDrawdown(portfolio, marketsMap) ==
  LET unrealized == UnrealizedPnl(portfolio.openPositions, marketsMap,
                                  DOMAIN portfolio.openPositions)
      equity == portfolio.startingCapitalUsd + portfolio.realizedPnlUsd + unrealized
      peak == Max(portfolio.maxEquityUsd, equity)
      drawdown == IF peak > 0 THEN ((equity - peak) * 100) \div peak ELSE 0
  IN [portfolio EXCEPT !.unrealizedPnlUsd = unrealized,
                       !.currentCapitalUsd = equity,
                       !.maxEquityUsd = peak,
                       !.maxDrawdownPct = drawdown]

\* portfolio.ts updatePortfolioMetrics: reprice, then peak and drawdown.
updatePortfolioMetrics(portfolio, marketsMap) ==
  LET unrealized == UnrealizedPnl(portfolio.openPositions, marketsMap,
                                  DOMAIN portfolio.openPositions)
      equity == portfolio.startingCapitalUsd + portfolio.realizedPnlUsd + unrealized
      peak == Max(portfolio.maxEquityUsd, equity)
      drawdown == IF peak > 0 THEN ((equity - peak) * 100) \div peak ELSE 0
  IN [portfolio EXCEPT !.unrealizedPnlUsd = unrealized,
                       !.currentCapitalUsd = equity,
                       !.maxEquityUsd = peak,
                       !.maxDrawdownPct = Min(portfolio.maxDrawdownPct, drawdown)]

\* ------------------------------------------------------------------- state

\* The portfolio variable before line 73 has run, and the value of a
\* promise that has not been fulfilled.
NoPortfolio == [absent |-> TRUE]
NoResult == [absent |-> TRUE]

IdleAgent == [pc |-> "idle", asked |-> <<>>, loaded |-> "none",
              portfolio |-> NoPortfolio, trades |-> <<>>, candidateMarkets |-> 0,
              saved |-> <<>>, result |-> NoResult, reason |-> NoError]

\* No adapter call and no pure-function call has been made.
IdlePersist ==
  [op |-> "none", pc |-> "idle", arg |-> <<>>, failed |-> "none",
   answer |-> FALSE, found |-> <<>>, threw |-> FALSE,
   trades |-> <<>>, marketTrade |-> <<>>,
   lastSaved |-> [i \in Agents |-> <<>>],
   client |-> "store", everFailed |-> FALSE, lastTrade |-> <<>>]
IdleUnit == [fn |-> "none", markets |-> <<>>, agent |-> 0, trades |-> <<>>,
             portfolio |-> <<>>, previous |-> <<>>, updates |-> 0, out |-> 0]

IdleCycle == [phase |-> "idle", previous |-> "idle",
              enabled |-> FALSE, intervalMs |-> 0,
              marketsP |-> "none", newsP |-> "none",
              markets |-> <<>>, marketsMap |-> EmptyMap,
              results |-> <<>>, error |-> NoError]

\* The startScheduler calls told apart: each call creates one closure.
Closures == {1, 2}

\* The locals of a closure before startScheduler has run: "let intervalId =
\* null; let isRunning = false".  cycleP is the promise of the closure's
\* latest runTradingCycle call, lastTick what its latest tick did.
IdleScheduler == [started |-> FALSE, intervalId |-> Null, isRunning |-> FALSE,
                  cycleP |-> "none", ticks |-> 0, lastTick |-> "none"]

NoCalls == [fetchAllMarkets |-> 0, fetchLatestNews |-> 0, runAgentCycle |-> 0,
            getPortfolio |-> 0, savePortfolio |-> 0]

Init ==
  /\ started = FALSE
  /\ intervalId = Null
  /\ timerMs = 0
  /\ isRunning = FALSE
  /\ ticks = 0
  /\ stopCalls = 0
  /\ stoppedAt = "none"
  /\ schedStarts = 0
  /\ active = 0
  /\ directCalls = 0
  /\ cycle = [s \in Slots |-> IdleCycle]
  /\ agents = [s \in Slots |-> [i \in Agents |-> IdleAgent]]
  /\ calls = [s \in Slots |-> NoCalls]
  /\ persist = IdlePersist
  /\ unit = IdleUnit
  /\ schedulers = [k \in Closures |-> IdleScheduler]

\* A runTradingCycle invocation has been called and has not settled.
InFlight(s) == cycle[s].phase \in {"fetching", "agents"}

\* Fail-fast join: the first agent cycle to settle ends the wait.
Settled_Any(s, i) == \E j \in Agents : agents[s][j].pc \in {"fulfilled", "rejected"}

\* A runAgentCycle promise has settled.
Settled(s, i) == agents[s][i].pc \in {"fulfilled", "rejected"}

\* ---------------------------------------------------------- runTradingCycle

\* runTradingCycle without the enabled test.
CallRunTradingCycle_NoEnabledTest(s, enabled, ms) ==
  /\ agents' = [agents EXCEPT ![s] = [i \in Agents |-> IdleAgent]]
  /\ cycle' = [cycle EXCEPT ![s] =
                 [IdleCycle EXCEPT !.previous = cycle[s].phase,
                                   !.enabled = enabled, !.intervalMs = ms,
                                   !.phase = "fetching",
                                   !.marketsP = "pending", !.newsP = "pending"]]
  /\ calls' = [calls EXCEPT ![s] =
                 [NoCalls EXCEPT !.fetchAllMarkets = 1, !.fetchLatestNews = 1]]

\* runTradingCycle refusing to start while another invocation is in flight.
CallRunTradingCycle_Guarded(s, enabled, ms) ==
  /\ \A t \in Slots \ {s} : ~InFlight(t)
  /\ agents' = [agents EXCEPT ![s] = [i \in Agents |-> IdleAgent]]
  /\ IF ~enabled
     THEN /\ cycle' = [cycle EXCEPT ![s] =
                         [IdleCycle EXCEPT !.previous = cycle[s].phase,
                                           !.enabled = enabled, !.intervalMs = ms,
                                           !.phase = "fulfilled"]]
          /\ calls' = [calls EXCEPT ![s] = NoCalls]
     ELSE /\ cycle' = [cycle EXCEPT ![s] =
                         [IdleCycle EXCEPT !.previous = cycle[s].phase,
                                           !.enabled = enabled, !.intervalMs = ms,
                                           !.phase = "fetching",
                                           !.marketsP = "pending", !.newsP = "pending"]]
          /\ calls' = [calls EXCEPT ![s] =
                         [NoCalls EXCEPT !.fetchAllMarkets = 1, !.fetchLatestNews = 1]]

\* runTradingCycle up to its first await: the enabled test, then both
\* fetchers are called and Promise.all is awaited.
CallRunTradingCycle(s, enabled, ms) ==
  LET called == [IdleCycle EXCEPT !.previous = cycle[s].phase,
                                  !.enabled = enabled, !.intervalMs = ms]
  IN /\ agents' = [agents EXCEPT ![s] = [i \in Agents |-> IdleAgent]]
     /\ IF ~enabled
        THEN /\ cycle' = [cycle EXCEPT ![s] = [called EXCEPT !.phase = "fulfilled"]]
             /\ calls' = [calls EXCEPT ![s] = NoCalls]
        ELSE /\ cycle' = [cycle EXCEPT ![s] =
                            [called EXCEPT !.phase = "fetching",
                                           !.marketsP = "pending", !.newsP = "pending"]]
             /\ calls' = [calls EXCEPT ![s] =
                            [NoCalls EXCEPT !.fetchAllMarkets = 1, !.fetchLatestNews = 1]]

\* A finally that leaves isRunning set when the cycle rejected.
RunCycleFinally_OnSuccessOnly(s) ==
  IF s = "sched" /\ cycle'[s].phase = "fulfilled"
  THEN /\ isRunning' = FALSE
       /\ active' = active - 1
       /\ UNCHANGED <<started, intervalId, timerMs, ticks, stopCalls, stoppedAt,
                      schedStarts>>
  ELSE UNCHANGED schedVars

\* A finally that counts the next cycle as started when the cycle ends.
RunCycleFinally_Restarts(s) ==
  IF s = "sched"
  THEN /\ isRunning' = TRUE
       /\ schedStarts' = schedStarts + 1
       /\ UNCHANGED <<started, intervalId, timerMs, ticks, stopCalls, stoppedAt,
                      active>>
  ELSE UNCHANGED schedVars

\* The continuation of runCycle after its await: catch logs, finally clears
\* the flag.  Runs in the same microtask chain as the settling of the cycle.
RunCycleFinally(s) ==
  IF s = "sched"
  THEN /\ isRunning' = FALSE
       /\ active' = active - 1
       /\ UNCHANGED <<started, intervalId, timerMs, ticks, stopCalls, stoppedAt,
                      schedStarts>>
  ELSE UNCHANGED schedVars

\* A fetch failure caught inside runTradingCycle and turned into failed
\* results for every agent.
CycleRejected_Swallowed(s, c, message) ==
  /\ cycle' = [cycle EXCEPT ![s] =
                 [c EXCEPT !.phase = "fulfilled", !.error = message,
                           !.results = [i \in Agents |->
                                          FailedResult(ALL_AGENT_IDS[i], message)]]]
  /\ RunCycleFinally(s)

\* runCycle clearing isRunning after the await instead of in finally.
CycleRejected_NoFinally(s, c, message) ==
  /\ cycle' = [cycle EXCEPT ![s] = [c EXCEPT !.phase = "rejected", !.error = message]]
  /\ UNCHANGED schedVars

\* Promise.all rejected: runTradingCycle rejects with that failure, from the
\* state c of the invocation.
CycleRejected(s, c, message) ==
  /\ cycle' = [cycle EXCEPT ![s] = [c EXCEPT !.phase = "rejected", !.error = message]]
  /\ RunCycleFinally(s)

\* The fetchAllMarkets() promise settles.
FetchMarketsSettles(s) ==
  /\ cycle[s].phase = "fetching"
  /\ cycle[s].marketsP = "pending"
  /\ \E o \in FetchOutcomes :
       IF o = "throw"
       THEN CycleRejected(s, [cycle[s] EXCEPT !.marketsP = "failed"],
                          "fetchAllMarkets failed")
       ELSE /\ \E ms \in MarketLists :
                 cycle' = [cycle EXCEPT ![s].marketsP = "ok", ![s].markets = ms]
            /\ UNCHANGED schedVars
  /\ UNCHANGED <<directCalls, harnessVars, agents, calls>>

\* The fetchLatestNews() promise settles.
FetchNewsSettles(s) ==
  /\ cycle[s].phase = "fetching"
  /\ cycle[s].newsP = "pending"
  /\ \E o \in FetchOutcomes :
       IF o = "throw"
       THEN CycleRejected(s, [cycle[s] EXCEPT !.newsP = "failed"],
                          "fetchLatestNews failed")
       ELSE /\ cycle' = [cycle EXCEPT ![s].newsP = "ok"]
            /\ UNCHANGED schedVars
  /\ UNCHANGED <<directCalls, harnessVars, agents, calls>>

\* ------------------------------------------------------------ runAgentCycle

\* runAgentCycle up to its first await: getAgentProfile, then the adapter
\* promise is awaited.  Both lie before the try block, so a throw of
\* getAgentProfile rejects the promise runAgentCycle returns.
CallRunAgentCycle(i, profileOutcome) ==
  IF profileOutcome = "throw"
  THEN [IdleAgent EXCEPT !.pc = "rejected", !.reason = "getAgentProfile failed"]
  ELSE [IdleAgent EXCEPT !.pc = "adapter"]

\* The agent cycles started as soon as the markets are in, without waiting
\* for the news.
StartAgentCycles_BeforeNews(s) ==
  /\ cycle[s].phase = "fetching"
  /\ cycle[s].marketsP = "ok"
  /\ cycle' = [cycle EXCEPT ![s].phase = "agents",
                            ![s].marketsMap = BuildMarketsMap(cycle[s].markets, EmptyMap)]
  /\ \E po \in [Agents -> ProfileOutcomes] :
       agents' = [agents EXCEPT ![s] = [i \in Agents |-> CallRunAgentCycle(i, po[i])]]
  /\ calls' = [calls EXCEPT ![s].runAgentCycle = NumAgents]
  /\ UNCHANGED <<schedVars, directCalls, harnessVars>>

\* Promise.all fulfilled: the markets map is built and runAgentCycle is
\* called for every roster agent, in roster order; allSettled is awaited.
StartAgentCycles(s) ==
  /\ cycle[s].phase = "fetching"
  /\ cycle[s].marketsP = "ok"
  /\ cycle[s].newsP = "ok"
  /\ cycle' = [cycle EXCEPT ![s].phase = "agents",
                            ![s].marketsMap = BuildMarketsMap(cycle[s].markets, EmptyMap)]
  /\ \E po \in [Agents -> ProfileOutcomes] :
       agents' = [agents EXCEPT ![s] = [i \in Agents |-> CallRunAgentCycle(i, po[i])]]
  /\ calls' = [calls EXCEPT ![s].runAgentCycle = NumAgents]
  /\ UNCHANGED <<schedVars, directCalls, harnessVars>>

\* The adapter promise resolved: the initial portfolio is created and
\* persistence.getPortfolio(agentId) is awaited.
AgentAdapterReady(s, i) ==
  /\ cycle[s].phase = "agents"
  /\ agents[s][i].pc = "adapter"
  /\ agents' = [agents EXCEPT ![s][i].pc = "loading",
                              ![s][i].asked = Append(@, ALL_AGENT_IDS[i]),
                              ![s][i].portfolio = createInitialPortfolio(ALL_AGENT_IDS[i])]
  /\ calls' = [calls EXCEPT ![s].getPortfolio = @ + 1]
  /\ UNCHANGED <<schedVars, directCalls, harnessVars, cycle>>

\* getPortfolio resolved (null, with the no-op adapter, so the initial
\* portfolio stays); updatePortfolioMetrics runs and generateAgentTrades is
\* awaited.  A throw of updatePortfolioMetrics is caught by the outer catch.
AgentPortfolioLoaded(s, i) ==
  /\ cycle[s].phase = "agents"
  /\ agents[s][i].pc = "loading"
  /\ NoopGetPortfolio(ALL_AGENT_IDS[i]) = Null
  /\ \E o \in MetricsOutcomes :
       IF o = "throw"
       THEN agents' = [agents EXCEPT ![s][i].pc = "fulfilled",
                        ![s][i].result = FailedResult(ALL_AGENT_IDS[i],
                                                      "updatePortfolioMetrics failed")]
       ELSE agents' = [agents EXCEPT ![s][i].pc = "generating",
                        ![s][i].loaded = "null",
                        ![s][i].portfolio =
                           updatePortfolioMetrics(agents[s][i].portfolio, cycle[s].marketsMap)]
  /\ UNCHANGED <<schedVars, directCalls, harnessVars, cycle, calls>>

\* The persist step skipped when the generator returned no trade.
AgentTradesGenerated_SaveIfTrades(s, i) ==
  /\ cycle[s].phase = "agents"
  /\ agents[s][i].pc = "generating"
  /\ \/ /\ agents' = [agents EXCEPT ![s][i].pc = "fulfilled",
                        ![s][i].result = FailedResult(ALL_AGENT_IDS[i],
                                                      "generateAgentTrades failed")]
        /\ UNCHANGED calls
     \/ \E ts \in TradeLists :
          /\ agents' = [agents EXCEPT ![s][i].pc = "saving",
                          ![s][i].trades = ts,
                          ![s][i].saved = IF ts = <<>> THEN @
                                          ELSE Append(@, agents[s][i].portfolio),
                          ![s][i].candidateMarkets =
                             CandidateMarkets(cycle[s].markets, AGENT_PROFILES[i])]
          /\ calls' = [calls EXCEPT ![s].savePortfolio =
                                      IF ts = <<>> THEN @ ELSE @ + 1]
  /\ UNCHANGED <<schedVars, directCalls, harnessVars, cycle>>

\* generateAgentTrades settled.  On failure the outer catch returns the
\* failed result; otherwise the candidates are counted and
\* persistence.savePortfolio(portfolio) is awaited.
AgentTradesGenerated(s, i) ==
  /\ cycle[s].phase = "agents"
  /\ agents[s][i].pc = "generating"
  /\ \/ /\ agents' = [agents EXCEPT ![s][i].pc = "fulfilled",
                        ![s][i].result = FailedResult(ALL_AGENT_IDS[i],
                                                      "generateAgentTrades failed")]
        /\ UNCHANGED calls
     \/ /\ \E ts \in TradeLists :
             agents' = [agents EXCEPT ![s][i].pc = "saving",
                          ![s][i].trades = ts,
                          ![s][i].saved = Append(@, agents[s][i].portfolio),
                          ![s][i].candidateMarkets =
                             CandidateMarkets(cycle[s].markets, AGENT_PROFILES[i])]
        /\ calls' = [calls EXCEPT ![s].savePortfolio = @ + 1]
  /\ UNCHANGED <<schedVars, directCalls, harnessVars, cycle>>

\* savePortfolio resolved (the no-op adapter never fails): the result is
\* returned.
AgentPortfolioSaved(s, i) ==
  /\ cycle[s].phase = "agents"
  /\ agents[s][i].pc = "saving"
  /\ agents' = [agents EXCEPT ![s][i].pc = "fulfilled",
                  ![s][i].result = SuccessResult(ALL_AGENT_IDS[i],
                                                 agents[s][i].candidateMarkets,
                                                 agents[s][i].trades,
                                                 agents[s][i].portfolio)]
  /\ UNCHANGED <<schedVars, directCalls, harnessVars, cycle, calls>>

\* The rejected branch indexing the roster with a constant.
SettledToResult_FirstAgent(a, i) ==
  IF a.pc = "fulfilled" THEN a.result
  ELSE FailedResult(ALL_AGENT_IDS[1], a.reason)

\* One entry of the loop over the allSettled results.
SettledToResult(a, i) ==
  IF a.pc = "fulfilled" THEN a.result
  ELSE FailedResult(ALL_AGENT_IDS[i], a.reason)

\* allSettled resolved: the results are converted in index order and
\* runTradingCycle returns them.
CollectResults(s) ==
  /\ cycle[s].phase = "agents"
  /\ \A i \in Agents : Settled(s, i)
  /\ cycle' = [cycle EXCEPT ![s].phase = "fulfilled",
                 ![s].results = [i \in Agents |-> SettledToResult(agents[s][i], i)]]
  /\ RunCycleFinally(s)
  /\ UNCHANGED <<directCalls, harnessVars, agents, calls>>

\* ----------------------------------------------------------- startScheduler

\* runCycle without its guard.
SkipIfRunning_Never == FALSE

\* The guard at the top of runCycle.
SkipIfRunning == isRunning

\* runCycle up to its await.
RunCycle(ms) ==
  IF SkipIfRunning
  THEN UNCHANGED <<isRunning, schedStarts, active, cycle, agents, calls>>
  ELSE /\ isRunning' = TRUE
       /\ schedStarts' = Min(schedStarts + 1, MaxTicks + 1)
       /\ active' = active + 1
       /\ CallRunTradingCycle("sched", TRUE, ms)

\* startScheduler that only arms the timer.
StartScheduler_TimerOnly ==
  /\ ~started
  /\ \E ms \in Intervals : timerMs' = ms
  /\ started' = TRUE
  /\ intervalId' = "timer"
  /\ UNCHANGED <<isRunning, ticks, stopCalls, stoppedAt, schedStarts, active,
                 directCalls, harnessVars, cycle, agents, calls>>

\* startScheduler(intervalMs): runCycle(), then setInterval(runCycle, ms).
StartScheduler ==
  /\ ~started
  /\ \E ms \in Intervals :
       /\ RunCycle(ms)
       /\ timerMs' = ms
  /\ started' = TRUE
  /\ intervalId' = "timer"
  /\ UNCHANGED <<ticks, stopCalls, stoppedAt, directCalls, harnessVars>>

\* The interval timer fires and calls runCycle.
TimerTick ==
  /\ intervalId # Null
  /\ ticks < MaxTicks
  /\ ticks' = ticks + 1
  /\ RunCycle(timerMs)
  /\ UNCHANGED <<started, intervalId, timerMs, stopCalls, stoppedAt, directCalls, harnessVars>>

\* A stop function that forgets clearInterval.
Stop_NoClear ==
  /\ started
  /\ stopCalls < MaxStops
  /\ stopCalls' = stopCalls + 1
  /\ stoppedAt' = IF stopCalls = 0 THEN cycle["sched"].phase ELSE stoppedAt
  /\ UNCHANGED <<started, intervalId, timerMs, isRunning, ticks, schedStarts, active,
                 directCalls, harnessVars, cycle, agents, calls>>

\* A stop function that also abandons the cycle in flight.
Stop_Cancels ==
  /\ started
  /\ stopCalls < MaxStops
  /\ stopCalls' = stopCalls + 1
  /\ stoppedAt' = IF stopCalls = 0 THEN cycle["sched"].phase ELSE stoppedAt
  /\ intervalId' = Null
  /\ isRunning' = FALSE
  /\ active' = 0
  /\ cycle' = [cycle EXCEPT !["sched"] = IdleCycle]
  /\ agents' = [agents EXCEPT !["sched"] = [i \in Agents |-> IdleAgent]]
  /\ UNCHANGED <<started, timerMs, ticks, schedStarts, directCalls, harnessVars, calls>>

\* The function startScheduler returned: clearInterval, intervalId = null.
Stop ==
  /\ started
  /\ stopCalls < MaxStops
  /\ stopCalls' = stopCalls + 1
  /\ stoppedAt' = IF stopCalls = 0 THEN cycle["sched"].phase ELSE stoppedAt
  /\ intervalId' = Null
  /\ UNCHANGED <<started, timerMs, isRunning, ticks, schedStarts, active,
                 directCalls, harnessVars, cycle, agents, calls>>

\* A caller other than the scheduler calls runTradingCycle(config).
DirectRunTradingCycle ==
  /\ ~InFlight("direct")
  /\ directCalls < MaxDirect
  /\ directCalls' = directCalls + 1
  /\ \E enabled \in BOOLEAN, ms \in Intervals :
       CallRunTradingCycle("direct", enabled, ms)
  /\ UNCHANGED <<schedVars, harnessVars>>

\* The steps of the runTradingCycle invocation in slot s.
CycleStep(s) ==
  \/ FetchMarketsSettles(s)
  \/ FetchNewsSettles(s)
  \/ StartAgentCycles(s)
  \/ \E i \in Agents : AgentAdapterReady(s, i)
  \/ \E i \in Agents : AgentPortfolioLoaded(s, i)
  \/ \E i \in Agents : AgentTradesGenerated(s, i)
  \/ \E i \in Agents : AgentPortfolioSaved(s, i)
  \/ CollectResults(s)

\* One scheduler and the cycles it starts.
Next ==
  \/ StartScheduler
  \/ TimerTick
  \/ Stop
  \/ CycleStep("sched")

Spec == Init /\ [][Next]_vars

\* The interval timer fires and calls runCycle, for as long as the timer is
\* armed; of the count of ticks only the parity is kept.
TimerTickForever ==
  /\ intervalId # Null
  /\ ticks' = (ticks + 1) % 2
  /\ RunCycle(timerMs)
  /\ UNCHANGED <<started, intervalId, timerMs, stopCalls, stoppedAt, directCalls, harnessVars>>

\* The scheduler whose stop function is never called.
NextLive ==
  \/ StartScheduler
  \/ TimerTickForever
  \/ CycleStep("sched")

\* The position of the scheduler and of its cycle: every step of NextLive
\* changes it.
progress ==
  <<started, intervalId, isRunning, ticks, stopCalls, cycle["sched"].phase,
    cycle["sched"].marketsP, cycle["sched"].newsP,
    [i \in Agents |-> agents["sched"][i].pc]>>

\* The scheduler that is started and never stopped, with a timer that keeps
\* firing and with cycles whose awaited promises all settle in the end.
LiveSpec ==
  /\ Init
  /\ [][NextLive]_vars
  /\ WF_progress(StartScheduler)
  /\ WF_progress(TimerTickForever)
  /\ WF_progress(CycleStep("sched"))

\* A caller that invokes runTradingCycle directly, one call at a time.
NextDirect ==
  \/ DirectRunTradingCycle
  \/ CycleStep("direct")

DirectSpec == Init /\ [][NextDirect]_vars

\* ------------------------------------------------------- two schedulers
\* startScheduler called twice.  Each call has its own closure, whose locals
\* are schedulers[k]; the runTradingCycle invocation a closure awaits is kept
\* as its promise alone, which settles either way.

\* A guard on one flag shared by every scheduler.
SchedulerSkipIfRunning_Shared(k) == \E j \in Closures : schedulers[j].isRunning

\* The guard at the top of runCycle: the closure's own flag.
SchedulerSkipIfRunning(k) == schedulers[k].isRunning

\* runCycle of closure k up to its await, applied to the closure's record c.
SchedulerRunCycle(k, c) ==
  IF SchedulerSkipIfRunning(k)
  THEN [c EXCEPT !.lastTick = "skipped"]
  ELSE [c EXCEPT !.isRunning = TRUE, !.cycleP = "pending", !.lastTick = "started"]

\* The k-th startScheduler call: runCycle(), then setInterval(runCycle, ms).
SchedulerStart(k) ==
  /\ ~schedulers[k].started
  /\ schedulers' = [schedulers EXCEPT ![k] =
       [SchedulerRunCycle(k, schedulers[k]) EXCEPT !.started = TRUE,
                                                   !.intervalId = "timer",
                                                   !.lastTick = "none"]]
  /\ UNCHANGED <<schedVars, directCalls, persist, unit, cycle, agents, calls>>

\* The interval timer of closure k fires and calls its runCycle.
SchedulerTick(k) ==
  /\ schedulers[k].intervalId # Null
  /\ schedulers[k].ticks < MaxTicks
  /\ schedulers' = [schedulers EXCEPT ![k] =
       [SchedulerRunCycle(k, schedulers[k]) EXCEPT !.ticks = @ + 1]]
  /\ UNCHANGED <<schedVars, directCalls, persist, unit, cycle, agents, calls>>

\* The runTradingCycle promise closure k awaits settles; catch logs a
\* rejection, finally clears the closure's flag.
SchedulerCycleSettles(k) ==
  /\ schedulers[k].cycleP = "pending"
  /\ \E outcome \in {"fulfilled", "rejected"} :
       schedulers' = [schedulers EXCEPT ![k] =
         [schedulers[k] EXCEPT !.cycleP = outcome, !.isRunning = FALSE]]
  /\ UNCHANGED <<schedVars, directCalls, persist, unit, cycle, agents, calls>>

\* The function the k-th startScheduler call returned.
SchedulerStop(k) ==
  /\ schedulers[k].started
  /\ schedulers' = [schedulers EXCEPT ![k] =
       IF schedulers[k].intervalId # Null
       THEN [schedulers[k] EXCEPT !.intervalId = Null]
       ELSE schedulers[k]]
  /\ UNCHANGED <<schedVars, directCalls, persist, unit, cycle, agents, calls>>

NextSchedulers ==
  \E k \in Closures :
    \/ SchedulerStart(k)
    \/ SchedulerTick(k)
    \/ SchedulerCycleSettles(k)
    \/ SchedulerStop(k)

SchedulersSpec == Init /\ [][NextSchedulers]_vars

\* ------------------------------------------- overlapping invocations
\* runTradingCycle called by the scheduler and by other callers at once.

\* A caller calls runTradingCycle(config) while the invocation of an earlier
\* direct call is in flight.
DirectRunTradingCycleAgain ==
  /\ InFlight("direct")
  /\ ~InFlight("again")
  /\ directCalls < MaxDirect
  /\ directCalls' = directCalls + 1
  /\ \E enabled \in BOOLEAN, ms \in Intervals :
       CallRunTradingCycle("again", enabled, ms)
  /\ UNCHANGED <<schedVars, harnessVars>>

\* The invocation in slot s meets no failure, is given the whole catalogue
\* and a non-empty trade list, and its agent cycles take their steps in
\* roster order.
Orderly(s) ==
  /\ cycle[s].phase # "rejected"
  /\ cycle[s].marketsP = "ok" => Len(cycle[s].markets) = MaxMarkets
  /\ \A i \in Agents :
       /\ agents[s][i].pc # "rejected"
       /\ agents[s][i].pc = "fulfilled" => agents[s][i].result.success
       /\ agents[s][i].pc \in {"saving", "fulfilled"} => agents[s][i].trades # <<>>
  /\ \A i, j \in Agents :
       (i < j /\ agents[s][j].pc \notin {"idle", "adapter"})
         => agents[s][i].pc = "fulfilled"

\* A step of the invocation in slot s that keeps it orderly.
OrderlyCycleStep(s) == CycleStep(s) /\ Orderly(s)'

\* One scheduler and two other callers of runTradingCycle, with invocations
\* that are all orderly: the schedules of the program in which the
\* invocations differ only in how their steps interleave.
NextOverlap ==
  \/ StartScheduler
  \/ DirectRunTradingCycle
  \/ DirectRunTradingCycleAgain
  \/ \E s \in Slots : OrderlyCycleStep(s)

OverlapSpec == Init /\ [][NextOverlap]_vars

\* ------------------------------------- runAgentCycle with any adapter
\* The persistence adapter is an interface: here it is an arbitrary
\* implementation of it, whose getPortfolio resolves to null, to a record
\* or rejects, and whose savePortfolio resolves or rejects.

\* A stored portfolio of some agent, with one position on market 1 and one
\* on a market that is in no fetched list.
StoredPortfolio ==
  [agentId |-> 999, startingCapitalUsd |-> 2000, currentCapitalUsd |-> 2100,
   realizedPnlUsd |-> 100, unrealizedPnlUsd |-> 0, maxEquityUsd |-> 2200,
   maxDrawdownPct |-> -4,
   openPositions |-> [id \in {1, 9} |->
                        [side |-> IF id = 1 THEN "YES" ELSE "NO",
                         entryPrice |-> 40, size |-> 10]]]

\* What getPortfolio can settle to: null, {}, a record without any
\* portfolio field, a portfolio, an AgentPortfolioRecord wrapping one, or a
\* rejection.
GetPortfolioOutcomes == {"null", "empty", "malformed", "flat", "wrapped", "throw"}

\* What savePortfolio can settle to.
SavePortfolioOutcomes == {"ok", "throw"}

\* The object getPortfolio resolved to (not for "null" and "throw").
PortfolioRecord(outcome) ==
  CASE outcome = "empty" -> [f \in {} |-> 0]
    [] outcome = "malformed" -> [foo |-> 1]
    [] outcome = "flat" -> StoredPortfolio
    [] outcome = "wrapped" -> [agentId |-> 999, portfolio |-> StoredPortfolio,
                               updatedAt |-> 0]

\* a.x ?? a.y ?? ... ?? default
RECURSIVE Coalesce(_, _, _)
Coalesce(pr, names, default) ==
  IF names = <<>> THEN default
  ELSE IF Head(names) \in DOMAIN pr THEN pr[Head(names)]
  ELSE Coalesce(pr, Tail(names), default)

\* The test without the key count: any non-null object is mapped.
UsableRecord_AnyObject(outcome) == outcome \notin {"null", "throw"}

\* portfolioRecordAny && (portfolioRecordAny.portfolio ||
\*                        Object.keys(portfolioRecordAny).length > 0)
UsableRecord(outcome) ==
  /\ outcome \notin {"null", "throw"}
  /\ \/ "portfolio" \in DOMAIN PortfolioRecord(outcome)
     \/ DOMAIN PortfolioRecord(outcome) # {}

\* The mapping that keeps the agentId found in the record.
MapPortfolioRecord_KeepsRecordId(agentId, rec) ==
  LET pr == IF "portfolio" \in DOMAIN rec THEN rec.portfolio ELSE rec
  IN [agentId |-> Coalesce(pr, <<"agentId">>, agentId),
      startingCapitalUsd |-> Coalesce(pr, <<"startingCapitalUsd", "startingCapital">>, 0),
      currentCapitalUsd |->
        Coalesce(pr, <<"currentCapitalUsd", "currentCapital", "current">>, 0),
      realizedPnlUsd |-> Coalesce(pr, <<"realizedPnlUsd">>, 0),
      unrealizedPnlUsd |-> Coalesce(pr, <<"unrealizedPnlUsd">>, 0),
      maxEquityUsd |-> Coalesce(pr, <<"maxEquityUsd">>, 0),
      maxDrawdownPct |-> Coalesce(pr, <<"maxDrawdownPct">>, 0),
      openPositions |-> Coalesce(pr, <<"openPositions">>, EmptyMap)]

\* The object literal built from the record, field by field.
MapPortfolioRecord(agentId, rec) ==
  LET pr == IF "portfolio" \in DOMAIN rec THEN rec.portfolio ELSE rec
  IN [agentId |-> agentId,
      startingCapitalUsd |-> Coalesce(pr, <<"startingCapitalUsd", "startingCapital">>, 0),
      currentCapitalUsd |->
        Coalesce(pr, <<"currentCapitalUsd", "currentCapital", "current">>, 0),
      realizedPnlUsd |-> Coalesce(pr, <<"realizedPnlUsd">>, 0),
      unrealizedPnlUsd |-> Coalesce(pr, <<"unrealizedPnlUsd">>, 0),
      maxEquityUsd |-> Coalesce(pr, <<"maxEquityUsd">>, 0),
      maxDrawdownPct |-> Coalesce(pr, <<"maxDrawdownPct">>, 0),
      openPositions |-> Coalesce(pr, <<"openPositions">>, EmptyMap)]

\* The inner try of runAgentCycle: the portfolio after the load attempt.
LoadPortfolio(agentId, outcome) ==
  IF UsableRecord(outcome)
  THEN MapPortfolioRecord(agentId, PortfolioRecord(outcome))
  ELSE createInitialPortfolio(agentId)

\* getPortfolio settled; the portfolio is the mapped record or the initial
\* one; updatePortfolioMetrics runs and generateAgentTrades is awaited.
AgentPortfolioLoadedFrom(s, i) ==
  /\ cycle[s].phase = "agents"
  /\ agents[s][i].pc = "loading"
  /\ \E g \in GetPortfolioOutcomes, o \in MetricsOutcomes :
       IF o = "throw"
       THEN agents' = [agents EXCEPT ![s][i].pc = "fulfilled",
                        ![s][i].loaded = g,
                        ![s][i].result = FailedResult(ALL_AGENT_IDS[i],
                                                      "updatePortfolioMetrics failed")]
       ELSE agents' = [agents EXCEPT ![s][i].pc = "generating",
                        ![s][i].loaded = g,
                        ![s][i].portfolio =
                           updatePortfolioMetrics(LoadPortfolio(ALL_AGENT_IDS[i], g),
                                                  cycle[s].marketsMap)]
  /\ UNCHANGED <<schedVars, directCalls, harnessVars, cycle, calls>>

\* savePortfolio settled: the result is returned, or the rejection reaches
\* the outer catch.
AgentSavePortfolioSettles(s, i) ==
  /\ cycle[s].phase = "agents"
  /\ agents[s][i].pc = "saving"
  /\ \E o \in SavePortfolioOutcomes :
       IF o = "throw"
       THEN agents' = [agents EXCEPT ![s][i].pc = "fulfilled",
                        ![s][i].result = FailedResult(ALL_AGENT_IDS[i],
                                                      "savePortfolio failed")]
       ELSE agents' = [agents EXCEPT ![s][i].pc = "fulfilled",
                        ![s][i].result = SuccessResult(ALL_AGENT_IDS[i],
                                                       agents[s][i].candidateMarkets,
                                                       agents[s][i].trades,
                                                       agents[s][i].portfolio)]
  /\ UNCHANGED <<schedVars, directCalls, harnessVars, cycle, calls>>

\* The place of a runAgentCycle call made on its own, outside any
\* runTradingCycle: cycle["call"] holds the arguments of the call.
CallSlot == "call"

AgentCallInit ==
  /\ started = FALSE
  /\ intervalId = Null
  /\ timerMs = 0
  /\ isRunning = FALSE
  /\ ticks = 0
  /\ stopCalls = 0
  /\ stoppedAt = "none"
  /\ schedStarts = 0
  /\ active = 0
  /\ directCalls = 0
  /\ cycle = [s \in Slots \cup {CallSlot} |-> IdleCycle]
  /\ agents = [s \in Slots \cup {CallSlot} |-> [i \in Agents |-> IdleAgent]]
  /\ calls = [s \in Slots \cup {CallSlot} |-> NoCalls]
  /\ persist = IdlePersist
  /\ unit = IdleUnit
  /\ schedulers = [k \in Closures |-> IdleScheduler]

\* A caller calls runAgentCycle(agentId, markets, marketsMap) for a roster
\* agent, once the previous call has settled.
DirectRunAgentCycle(i) ==
  /\ \A j \in Agents : agents[CallSlot][j].pc \in {"idle", "fulfilled", "rejected"}
  /\ \E ms \in MarketLists :
       cycle' = [cycle EXCEPT ![CallSlot] =
                   [IdleCycle EXCEPT !.phase = "agents", !.markets = ms,
                                     !.marketsMap = BuildMarketsMap(ms, EmptyMap)]]
  /\ \E po \in ProfileOutcomes :
       agents' = [agents EXCEPT ![CallSlot] =
                    [j \in Agents |-> IF j = i THEN CallRunAgentCycle(i, po)
                                      ELSE IdleAgent]]
  /\ calls' = [calls EXCEPT ![CallSlot] = [NoCalls EXCEPT !.runAgentCycle = 1]]
  /\ UNCHANGED <<schedVars, directCalls, harnessVars>>

NextAgentCall ==
  \/ \E i \in Agents : DirectRunAgentCycle(i)
  \/ \E i \in Agents : AgentAdapterReady(CallSlot, i)
  \/ \E i \in Agents : AgentPortfolioLoadedFrom(CallSlot, i)
  \/ \E i \in Agents : AgentTradesGenerated(CallSlot, i)
  \/ \E i \in Agents : AgentSavePortfolioSettles(CallSlot, i)

AnyAdapterSpec == AgentCallInit /\ [][NextAgentCall]_vars

\* The agent cycles of one trading cycle, all given the same markets list
\* and map, each with an arbitrary adapter behind the interface.
StartAllAgentCycles ==
  /\ cycle[CallSlot].phase = "idle"
  /\ \E ms \in MarketLists :
       cycle' = [cycle EXCEPT ![CallSlot] =
                   [IdleCycle EXCEPT !.phase = "agents", !.markets = ms,
                                     !.marketsMap = BuildMarketsMap(ms, EmptyMap)]]
  /\ \E po \in [Agents -> ProfileOutcomes] :
       agents' = [agents EXCEPT ![CallSlot] =
                    [i \in Agents |-> CallRunAgentCycle(i, po[i])]]
  /\ calls' = [calls EXCEPT ![CallSlot] = [NoCalls EXCEPT !.runAgentCycle = NumAgents]]
  /\ UNCHANGED <<schedVars, directCalls, harnessVars>>

NextSiblings ==
  \/ StartAllAgentCycles
  \/ \E i \in Agents : AgentAdapterReady(CallSlot, i)
  \/ \E i \in Agents : AgentPortfolioLoadedFrom(CallSlot, i)
  \/ \E i \in Agents : AgentTradesGenerated(CallSlot, i)
  \/ \E i \in Agents : AgentSavePortfolioSettles(CallSlot, i)

SiblingsSpec == AgentCallInit /\ [][NextSiblings]_vars

\* --------------------------------------------- the persistence adapter
\* The adapter getPersistenceAdapter returns when firebaseClient can be
\* imported, called on its own. firebaseClient is a key-value cache:
\* setCache(key, value, ttl) writes, getCache(key) reads the value or null,
\* and either can reject. persist.trades holds the trade:{id} keys and
\* persist.marketTrade the marketTrade:{marketId} keys, each a function
\* whose domain is the set of ids written so far.

TradeIds == {1, 2}
MarketIds == {1, 2}

\* AgentTradeRecord values handed to saveTrade.
TradeRecords ==
  [id : TradeIds, agentId : {ALL_AGENT_IDS[1]}, marketId : MarketIds,
   status : {"OPEN", "CLOSED"}]

\* What a firebaseClient call can settle to.
CacheOutcomes == {"ok", "throw"}

\* The firebaseClient module the adapter imports: "stub" is the one at
\* server/firebaseClient.js, whose setCache does nothing and whose getCache
\* resolves to null; "store" is a client that keeps what it is given.
Clients == {"stub", "store"}

\* The stub never rejects.
ClientOutcomes(client) == IF client = "stub" THEN {"ok"} ELSE CacheOutcomes

\* Portfolios handed to savePortfolio for agent i.
SavedPortfolios(i) ==
  {createInitialPortfolio(ALL_AGENT_IDS[i]),
   [StoredPortfolio EXCEPT !.agentId = ALL_AGENT_IDS[i]]}

\* setCache(key, value): the cache with key holding value.
SetCache(cache, key, value) ==
  [k \in DOMAIN cache \cup {key} |-> IF k = key THEN value ELSE cache[k]]

\* client.setCache(key, value) resolved: the cache afterwards.
ClientSetCache(client, cache, key, value) ==
  IF client = "stub" THEN cache ELSE SetCache(cache, key, value)

\* client.getCache(key) resolved: <<>> for null, else <<value>>.
ClientGetCache(client, cache, key) ==
  IF client = "stub" \/ key \notin DOMAIN cache THEN <<>> ELSE <<cache[key]>>

\* saveTrade(t) has returned. persist.lastTrade keeps, for each market, the
\* status of the trade last handed to saveTrade, as long as no write has
\* failed; persist.everFailed says that one has.
TradeSaved(p, t, ok) ==
  IF ok /\ ~p.everFailed
  THEN [p EXCEPT !.lastTrade = SetCache(p.lastTrade, t.marketId, t.status)]
  ELSE [p EXCEPT !.lastTrade = <<>>, !.everFailed = TRUE]

\* The adapter has no call in flight.
AdapterIdle == persist.pc \in {"idle", "done"}

\* A call starts: what the previous call left for its caller is gone.
StartCall(op, pc, arg) ==
  [persist EXCEPT !.op = op, !.pc = pc, !.arg = arg, !.failed = "none",
                  !.answer = FALSE, !.found = <<>>, !.threw = FALSE]

\* saveTrade(trade): the first setCache, of the trade key, is awaited.
CallSaveTrade(t) ==
  /\ AdapterIdle
  /\ persist' = StartCall("saveTrade", "setTrade", <<t>>)
  /\ UNCHANGED <<schedVars, directCalls, unit, schedulers, cycle, agents, calls>>

\* A setCache awaited in saveTrade rejects and the rejection leaves
\* saveTrade.
SetCacheSettles_Rethrows ==
  /\ persist.pc \in {"setTrade", "setIndex"}
  /\ persist' = [TradeSaved(persist, persist.arg[1], FALSE)
                   EXCEPT !.pc = "done", !.threw = TRUE,
                          !.failed = IF persist.pc = "setTrade" THEN "trade"
                                     ELSE "index"]
  /\ UNCHANGED <<schedVars, directCalls, unit, schedulers, cycle, agents, calls>>

\* A saveTrade that removes the trade key again when the index write
\* fails.
SetCacheSettles_Atomic ==
  /\ persist.pc \in {"setTrade", "setIndex"}
  /\ LET t == persist.arg[1]
     IN \E o \in ClientOutcomes(persist.client) :
          IF o = "throw"
          THEN persist' = [TradeSaved(persist, t, FALSE) EXCEPT !.pc = "done",
                             !.trades = [k \in DOMAIN persist.trades \ {t.id} |->
                                           persist.trades[k]],
                             !.failed = IF persist.pc = "setTrade" THEN "trade"
                                        ELSE "index"]
          ELSE IF persist.pc = "setTrade"
          THEN persist' = [persist EXCEPT !.pc = "setIndex",
                             !.trades = ClientSetCache(persist.client, persist.trades,
                                                       t.id, t)]
          ELSE persist' = [TradeSaved(persist, t, TRUE) EXCEPT !.pc = "done",
                             !.marketTrade =
                                ClientSetCache(persist.client, persist.marketTrade,
                                               t.marketId,
                                               [tradeId |-> t.id, agentId |-> t.agentId,
                                                status |-> t.status])]
  /\ UNCHANGED <<schedVars, directCalls, unit, schedulers, cycle, agents, calls>>

\* A setCache awaited in saveTrade settles. After the trade key the index
\* key is written; a rejection of either is caught and logged.
SetCacheSettles ==
  /\ persist.pc \in {"setTrade", "setIndex"}
  /\ LET t == persist.arg[1]
     IN \E o \in ClientOutcomes(persist.client) :
          IF o = "throw"
          THEN persist' = [TradeSaved(persist, t, FALSE) EXCEPT !.pc = "done",
                             !.failed = IF persist.pc = "setTrade" THEN "trade"
                                        ELSE "index"]
          ELSE IF persist.pc = "setTrade"
          THEN persist' = [persist EXCEPT !.pc = "setIndex",
                             !.trades = ClientSetCache(persist.client, persist.trades,
                                                       t.id, t)]
          ELSE persist' = [TradeSaved(persist, t, TRUE) EXCEPT !.pc = "done",
                             !.marketTrade =
                                ClientSetCache(persist.client, persist.marketTrade,
                                               t.marketId,
                                               [tradeId |-> t.id, agentId |-> t.agentId,
                                                status |-> t.status])]
  /\ UNCHANGED <<schedVars, directCalls, unit, schedulers, cycle, agents, calls>>

\* marketHasTrade(marketId): getCache of the index key is awaited.
CallMarketHasTrade(m) ==
  /\ AdapterIdle
  /\ persist' = StartCall("marketHasTrade", "getIndex", <<m>>)
  /\ UNCHANGED <<schedVars, directCalls, unit, schedulers, cycle, agents, calls>>

\* The getCache awaited in marketHasTrade rejects and the rejection leaves
\* marketHasTrade.
GetCacheSettles_Rethrows ==
  /\ persist.pc = "getIndex"
  /\ persist' = [persist EXCEPT !.pc = "done", !.failed = "lookup",
                                !.threw = TRUE]
  /\ UNCHANGED <<schedVars, directCalls, unit, schedulers, cycle, agents, calls>>

\* The getCache awaited in marketHasTrade settles: false without an entry,
\* else whether the entry's status is OPEN; false when getCache rejected.
GetCacheSettles ==
  /\ persist.pc = "getIndex"
  /\ LET existing == ClientGetCache(persist.client, persist.marketTrade,
                                    persist.arg[1])
     IN \E o \in ClientOutcomes(persist.client) :
          IF o = "throw"
          THEN persist' = [persist EXCEPT !.pc = "done", !.failed = "lookup",
                                          !.answer = FALSE]
          ELSE persist' = [persist EXCEPT !.pc = "done",
                             !.answer = /\ existing # <<>>
                                        /\ existing[1].status = "OPEN"]
  /\ UNCHANGED <<schedVars, directCalls, unit, schedulers, cycle, agents, calls>>

\* savePortfolio(portfolio): nothing is written. persist.lastSaved keeps,
\* for each agent, the portfolio last handed to savePortfolio.
CallSavePortfolio(i) ==
  /\ AdapterIdle
  /\ \E p \in SavedPortfolios(i) :
       persist' = [StartCall("savePortfolio", "done", <<p>>)
                     EXCEPT !.lastSaved[i] = <<p>>]
  /\ UNCHANGED <<schedVars, directCalls, unit, schedulers, cycle, agents, calls>>

\* getPortfolio(agentId): resolves to null. persist.found is the portfolio
\* returned, <<>> for null.
CallGetPortfolio(i) ==
  /\ AdapterIdle
  /\ persist' = [StartCall("getPortfolio", "done", <<i>>) EXCEPT !.found = <<>>]
  /\ UNCHANGED <<schedVars, directCalls, unit, schedulers, cycle, agents, calls>>

NextAdapter ==
  \/ \E t \in TradeRecords : CallSaveTrade(t)
  \/ SetCacheSettles
  \/ \E m \in MarketIds : CallMarketHasTrade(m)
  \/ GetCacheSettles
  \/ \E i \in Agents : CallSavePortfolio(i)
  \/ \E i \in Agents : CallGetPortfolio(i)

\* The adapter was obtained with one of the two clients behind it.
AdapterInit ==
  /\ started = FALSE
  /\ intervalId = Null
  /\ timerMs = 0
  /\ isRunning = FALSE
  /\ ticks = 0
  /\ stopCalls = 0
  /\ stoppedAt = "none"
  /\ schedStarts = 0
  /\ active = 0
  /\ directCalls = 0
  /\ cycle = [s \in Slots |-> IdleCycle]
  /\ agents = [s \in Slots |-> [i \in Agents |-> IdleAgent]]
  /\ calls = [s \in Slots |-> NoCalls]
  /\ \E c \in Clients : persist = [IdlePersist EXCEPT !.client = c]
  /\ schedulers = [k \in Closures |-> IdleScheduler]
  /\ unit = IdleUnit

AdapterSpec == AdapterInit /\ [][NextAdapter]_vars

\* ------------------------------------------------ the candidate count
\* The candidate count of runAgentCycle on its own: the markets list, the
\* profile, the trades and the portfolio are the inputs; unit.out is the
\* candidateMarkets field of the result returned on success.

MaxUnitMarkets == 2

\* Markets at, just under and just over the thresholds of UnitProfiles.
UnitMarkets ==
  [id : {1}, volumeUsd : {99, 100, 101}, liquidityUsd : {49, 50, 51},
   price : {50}]

UnitMarketLists ==
  UNION {[1..n -> UnitMarkets] : n \in 0..MaxUnitMarkets}

UnitProfiles ==
  {[minVolume |-> 100, minLiquidity |-> 50],
   [minVolume |-> 101, minLiquidity |-> 49]}

UnitPortfolios ==
  {createInitialPortfolio(ALL_AGENT_IDS[1]),
   [StoredPortfolio EXCEPT !.agentId = ALL_AGENT_IDS[1]]}

UnitIdle ==
  /\ started = FALSE
  /\ intervalId = Null
  /\ timerMs = 0
  /\ isRunning = FALSE
  /\ ticks = 0
  /\ stopCalls = 0
  /\ stoppedAt = "none"
  /\ schedStarts = 0
  /\ active = 0
  /\ directCalls = 0
  /\ cycle = [s \in Slots |-> IdleCycle]
  /\ agents = [s \in Slots |-> [i \in Agents |-> IdleAgent]]
  /\ calls = [s \in Slots |-> NoCalls]
  /\ persist = IdlePersist
  /\ schedulers = [k \in Closures |-> IdleScheduler]

CandidateInit ==
  /\ UnitIdle
  /\ \E ms \in UnitMarketLists, pr \in UnitProfiles, tl \in TradeLists,
        pf \in UnitPortfolios :
       unit = [IdleUnit EXCEPT !.fn = "input", !.markets = ms, !.agent = pr,
                               !.trades = tl, !.portfolio = <<pf>>]

\* Lines 107-126 of runAgentCycle on the inputs: the count, then the
\* result that carries it.
CountCandidates ==
  /\ unit.fn = "input"
  /\ unit' = [unit EXCEPT !.fn = "candidateMarkets",
                !.out = SuccessResult(ALL_AGENT_IDS[1],
                                      CandidateMarkets(unit.markets, unit.agent),
                                      unit.trades,
                                      unit.portfolio[1]).candidateMarkets]
  /\ UNCHANGED <<schedVars, directCalls, persist, schedulers, cycle, agents, calls>>

NextCandidate == CountCandidates

CandidateSpec == CandidateInit /\ [][NextCandidate]_vars

\* ------------------------------------------- repeated portfolio repricing
\* updatePortfolioMetrics called again and again on one portfolio, the
\* price of market 1 changing between the calls. unit.previous is the
\* portfolio before the last call.

MaxUpdates == 3

UnitPrices == {10, 40, 50, 90}

\* One YES or NO position on market 1.
UnitPosition(side) ==
  [id \in {1} |-> [side |-> side, entryPrice |-> 40, size |-> 10]]

\* Portfolios before the first call: initial ones holding a position or
\* none, and a stored one past its peak, with its positions or with none.
MetricsPortfolios ==
  {[createInitialPortfolio(ALL_AGENT_IDS[1]) EXCEPT !.openPositions = UnitPosition(sd)] :
     sd \in {"YES", "NO"}}
  \cup {[StoredPortfolio EXCEPT !.agentId = ALL_AGENT_IDS[1]]}
  \cup {createInitialPortfolio(ALL_AGENT_IDS[1]),
        [StoredPortfolio EXCEPT !.agentId = ALL_AGENT_IDS[1],
                                !.openPositions = EmptyMap]}

\* The markets a call is given: none, or market 1 at some price.
MetricsMarketLists ==
  {<<>>} \cup {<<[Market(1) EXCEPT !.price = price]>> : price \in UnitPrices}

MetricsInit ==
  /\ UnitIdle
  /\ \E pf \in MetricsPortfolios :
       unit = [IdleUnit EXCEPT !.fn = "updatePortfolioMetrics",
                               !.portfolio = <<pf>>]

\* updatePortfolioMetrics(portfolio, marketsMap) with the map built from
\* the list ms, which unit.markets keeps.
UpdateMetrics(ms) ==
  /\ unit.fn = "updatePortfolioMetrics"
  /\ unit.updates < MaxUpdates
  /\ unit' = [unit EXCEPT
       !.previous = unit.portfolio,
       !.updates = unit.updates + 1,
       !.markets = ms,
       !.portfolio =
          <<updatePortfolioMetrics(unit.portfolio[1],
                                   BuildMarketsMap(ms, EmptyMap))>>]
  /\ UNCHANGED <<schedVars, directCalls, persist, schedulers, cycle, agents, calls>>

NextMetrics == \E ms \in MetricsMarketLists : UpdateMetrics(ms)

MetricsSpec == MetricsInit /\ [][NextMetrics]_vars

\* ------------------------------------------------------------------ claims

\* C1: runAgentCycle never rejects: every invocation that has settled is
\* fulfilled with a result carrying its own agentId, and an invocation in
\* which a step failed is fulfilled with success = FALSE and an error.
C1_NeverRejects ==
  \A s \in Slots, i \in Agents :
    /\ agents[s][i].pc # "rejected"
    /\ agents[s][i].pc = "fulfilled" =>
         /\ agents[s][i].result.agentId = ALL_AGENT_IDS[i]
         /\ agents[s][i].result.success = (agents[s][i].result.error = NoError)

\* C2: at most one trading cycle started by the scheduler is in flight.
C2_AtMostOneInFlight ==
  /\ active <= 1
  /\ active = (IF InFlight("sched") THEN 1 ELSE 0)

\* C2 witness: a tick fired while the first cycle was still in flight and
\* started nothing.
C2_Witness ==
  /\ InFlight("sched")
  /\ schedStarts = 1
  /\ ticks >= 2

\* C3: an enabled runTradingCycle that got both fetches returns one result
\* per roster agent, in roster order; a rejected agent cycle appears as a
\* success = FALSE result of that agent.
C3_OneResultPerAgent ==
  \A s \in Slots :
    (cycle[s].enabled /\ cycle[s].phase = "fulfilled") =>
      /\ Len(cycle[s].results) = NumAgents
      /\ \A i \in Agents :
           /\ cycle[s].results[i].agentId = ALL_AGENT_IDS[i]
           /\ agents[s][i].pc = "rejected" =>
                /\ ~cycle[s].results[i].success
                /\ cycle[s].results[i].error = agents[s][i].reason
           /\ agents[s][i].pc = "fulfilled" =>
                cycle[s].results[i] = agents[s][i].result

\* C3 witness: a returned cycle in which the last roster agent's cycle
\* rejected and the first one's succeeded.
C3_Witness ==
  /\ cycle["sched"].phase = "fulfilled"
  /\ agents["sched"][NumAgents].pc = "rejected"
  /\ agents["sched"][1].pc = "fulfilled"
  /\ cycle["sched"].results[1].success

\* What agent j's cycle returns, computed from j's own inputs alone: the
\* shared markets, j's profile, j's trades and j's own failure.
OwnResult(s, j) ==
  LET a == agents[s][j]
      id == ALL_AGENT_IDS[j]
  IN IF a.pc = "rejected" THEN FailedResult(id, a.reason)
     ELSE IF ~a.result.success THEN FailedResult(id, a.result.error)
     ELSE SuccessResult(id,
            CandidateMarkets(cycle[s].markets, AGENT_PROFILES[j]),
            a.trades,
            updatePortfolioMetrics(createInitialPortfolio(id),
                                   BuildMarketsMap(cycle[s].markets, EmptyMap)))

\* Agent i's cycle fails in this step.
FailsNow(s, i) ==
  /\ agents[s][i].pc \notin {"fulfilled", "rejected"}
  /\ \/ agents'[s][i].pc = "rejected"
     \/ agents'[s][i].pc = "fulfilled" /\ ~agents'[s][i].result.success

\* An unsettled agent cycle of a running trading cycle can take its next step.
CanProceed(s, j) ==
  ENABLED (\/ AgentAdapterReady(s, j) \/ AgentPortfolioLoaded(s, j)
           \/ AgentTradesGenerated(s, j) \/ AgentPortfolioSaved(s, j))

\* C4: a failing agent cycle does not affect its siblings: the failing step
\* changes no sibling's state, every unsettled sibling can still proceed,
\* the cycle returns only when every agent cycle has settled, and each
\* sibling's result is the one its own inputs determine.
C4_SiblingIsolation ==
  /\ [](\A s \in Slots, j \in Agents :
          /\ (cycle[s].phase = "agents"
              /\ agents[s][j].pc \notin {"fulfilled", "rejected"}) => CanProceed(s, j)
          /\ (cycle[s].enabled /\ cycle[s].phase = "fulfilled") =>
               /\ agents[s][j].pc \in {"fulfilled", "rejected"}
               /\ cycle[s].results[j] = OwnResult(s, j))
  /\ [][\A s \in Slots, i \in Agents, j \in Agents :
          (i # j /\ cycle[s].phase = "agents" /\ FailsNow(s, i))
            => agents'[s][j] = agents[s][j]]_vars

\* C4 witness: a returned cycle in which the first agent failed and the
\* last one succeeded with an opened trade.
C4_Witness ==
  /\ cycle["sched"].phase = "fulfilled"
  /\ ~cycle["sched"].results[1].success
  /\ cycle["sched"].results[NumAgents].success
  /\ cycle["sched"].results[NumAgents].newTrades = 2
  /\ cycle["sched"].results[NumAgents].closedTrades = 1

\* C5: a runTradingCycle call with enabled = FALSE has returned the empty
\* list and has made no fetch, started no agent cycle and made no
\* persistence call.
C5_DisabledNoEffects ==
  \A s \in Slots :
    (cycle[s].phase # "idle" /\ ~cycle[s].enabled) =>
      /\ cycle[s].phase = "fulfilled"
      /\ cycle[s].results = <<>>
      /\ calls[s] = NoCalls
      /\ \A i \in Agents : agents[s][i].pc = "idle"

\* C5 witness: a disabled call made after an enabled one that had fetched.
C5_Witness ==
  /\ cycle["direct"].phase = "fulfilled"
  /\ ~cycle["direct"].enabled
  /\ cycle["direct"].previous \in {"fulfilled", "rejected"}
  /\ cycle["direct"].intervalMs = 1000

\* C6: when a fetch fails, runTradingCycle rejects with that failure, and a
\* rejected runTradingCycle has started no agent cycle and produced no result.
C6_FetchFailureAborts ==
  \A s \in Slots :
    /\ cycle[s].marketsP = "failed" =>
         cycle[s].phase = "rejected" /\ cycle[s].error = "fetchAllMarkets failed"
    /\ cycle[s].newsP = "failed" =>
         cycle[s].phase = "rejected" /\ cycle[s].error = "fetchLatestNews failed"
    /\ cycle[s].phase = "rejected" =>
         /\ cycle[s].marketsP = "failed" \/ cycle[s].newsP = "failed"
         /\ cycle[s].results = <<>>
         /\ calls[s].runAgentCycle = 0
         /\ calls[s].getPortfolio = 0
         /\ calls[s].savePortfolio = 0
         /\ \A i \in Agents : agents[s][i].pc = "idle"

\* C6 witness: the news fetch failed after the markets fetch had succeeded.
C6_Witness ==
  /\ cycle["direct"].phase = "rejected"
  /\ cycle["direct"].marketsP = "ok"
  /\ cycle["direct"].newsP = "failed"

\* C7: once startScheduler has been called a first cycle has been started,
\* it was started by the startScheduler call itself with no tick fired, and
\* every later start happens in a timer tick.
C7_ImmediateFirstCycle ==
  /\ [](started => schedStarts >= 1)
  /\ [][schedStarts' # schedStarts =>
          /\ schedStarts' = schedStarts + 1
          /\ IF schedStarts = 0
             THEN ~started /\ started' /\ ticks = 0 /\ ticks' = 0
             ELSE started /\ ticks' = ticks + 1]_vars

\* C7 witness: the first cycle is in flight and no tick has fired yet.
C7_Witness ==
  /\ started
  /\ schedStarts = 1
  /\ ticks = 0
  /\ InFlight("sched")

\* C8: after the stop function has been called the scheduler starts no
\* cycle and no tick fires, and a second stop call changes nothing.
C8_StopIsFinal ==
  /\ [][stopCalls > 0 => (schedStarts' = schedStarts /\ ticks' = ticks)]_vars
  /\ [][(stopCalls > 0 /\ stopCalls' # stopCalls) =>
          UNCHANGED <<started, intervalId, timerMs, isRunning, ticks, stoppedAt,
                      schedStarts, active, directCalls, harnessVars, cycle, agents, calls>>]_vars

\* C8 witness: stop was called twice, first while a cycle was in flight,
\* with ticks left to fire, and the cycle has since completed.
C8_Witness ==
  /\ stopCalls = 2
  /\ stoppedAt = "agents"
  /\ ticks < MaxTicks
  /\ ~InFlight("sched")

\* C9: the stop function clears the timer only: it leaves the cycle in
\* flight, its agent cycles, its collaborator calls and the isRunning flag
\* as they are, and the cycle in flight can still take its next step.
C9_StopDoesNotCancel ==
  /\ [][stopCalls' # stopCalls =>
          /\ intervalId' = Null
          /\ UNCHANGED <<isRunning, active, cycle, agents, calls>>]_vars
  /\ []((stopCalls > 0 /\ InFlight("sched")) => ENABLED CycleStep("sched"))

\* C9 witness: stop was called during the fetch, and the cycle then ran
\* every agent cycle, saved every portfolio and returned.
C9_Witness ==
  /\ stoppedAt = "fetching"
  /\ cycle["sched"].phase = "fulfilled"
  /\ calls["sched"].savePortfolio = NumAgents
  /\ schedStarts = 1

\* C10: a rejected cycle leaves the scheduler with the guard cleared and,
\* unless stopped, the same timer; nothing but a tick starts the next
\* cycle, and the next tick does start it.
C10_FailureDoesNotWedge ==
  /\ [](cycle["sched"].phase = "rejected" =>
          /\ ~isRunning
          /\ active = 0
          /\ stopCalls = 0 => (intervalId = "timer"
                               /\ timerMs = cycle["sched"].intervalMs))
  /\ [][cycle["sched"].phase = "rejected" =>
          /\ timerMs' = timerMs
          /\ schedStarts' # schedStarts => ticks' = ticks + 1
          /\ ticks' # ticks =>
               /\ schedStarts' = schedStarts + 1
               /\ cycle'["sched"].phase = "fetching"
               /\ cycle'["sched"].intervalMs = timerMs]_vars

\* C10 witness: a cycle started by a tick after the previous one rejected.
C10_Witness ==
  /\ cycle["sched"].previous = "rejected"
  /\ InFlight("sched")
  /\ schedStarts >= 2


\* C11: an enabled runTradingCycle calls each fetcher once, both fetches
\* have completed before any agent cycle starts, the map is the one built
\* from the fetched list, and list and map stay the same for every agent
\* cycle of the invocation; no agent cycle fetches again.
C11_FetchOncePerCycle ==
  /\ [](\A s \in Slots :
          (cycle[s].enabled /\ cycle[s].phase # "idle") =>
            /\ calls[s].fetchAllMarkets = 1
            /\ calls[s].fetchLatestNews = 1
            /\ calls[s].runAgentCycle > 0 =>
                 /\ cycle[s].marketsP = "ok"
                 /\ cycle[s].newsP = "ok"
                 /\ cycle[s].marketsMap = BuildMarketsMap(cycle[s].markets, EmptyMap)
            /\ \A i \in Agents :
                 agents[s][i].pc # "idle" => calls[s].runAgentCycle = NumAgents)
  /\ [][\A s \in Slots :
          (cycle[s].phase = "agents" /\ cycle'[s].phase \in {"agents", "fulfilled"}) =>
            /\ cycle'[s].markets = cycle[s].markets
            /\ cycle'[s].marketsMap = cycle[s].marketsMap]_vars

\* C11 witness: every agent cycle has counted its candidates on a
\* non-empty fetched list, after one call of each fetcher.
C11_Witness ==
  /\ cycle["sched"].phase = "agents"
  /\ Len(cycle["sched"].markets) >= 1
  /\ \A i \in Agents : agents["sched"][i].pc = "saving"
  /\ calls["sched"].fetchAllMarkets = 1
  /\ calls["sched"].fetchLatestNews = 1


\* The runAgentCycle call made on its own has reached its persist step:
\* neither updatePortfolioMetrics nor generateAgentTrades failed.
ReachedPersist(a) ==
  \/ a.pc = "saving"
  \/ /\ a.pc = "fulfilled"
     /\ a.result.success \/ a.result.error = "savePortfolio failed"

Repriced(a) ==
  \/ a.pc \in {"generating", "saving"}
  \/ a.pc = "fulfilled" /\ a.result.error # "updatePortfolioMetrics failed"

\* C13: when getPortfolio resolves to null or {} or rejects, the cycle goes
\* on with createInitialPortfolio(agentId): that portfolio is repriced and
\* saved, and a failed result is never due to the load.
C13_LoadFailureFallsBack ==
  \A i \in Agents :
    LET a == agents[CallSlot][i]
        initial == updatePortfolioMetrics(createInitialPortfolio(ALL_AGENT_IDS[i]),
                                          cycle[CallSlot].marketsMap)
    IN a.loaded \in {"null", "empty", "throw"} =>
         /\ Repriced(a) => a.portfolio = initial
         /\ ReachedPersist(a) => a.saved = <<initial>>
         /\ (a.pc = "fulfilled" /\ ~a.result.success) =>
              a.result.error \in {"updatePortfolioMetrics failed",
                                  "generateAgentTrades failed",
                                  "savePortfolio failed"}

\* C13 witness: getPortfolio rejected and the cycle succeeded after saving
\* the initial portfolio.
C13_Witness ==
  \E i \in Agents :
    /\ agents[CallSlot][i].loaded = "throw"
    /\ agents[CallSlot][i].pc = "fulfilled"
    /\ agents[CallSlot][i].result.success
    /\ agents[CallSlot][i].saved[1].startingCapitalUsd = StartingCapitalUsd

C16_MarketHasTradeFailsOpen ==
  (persist.op = "marketHasTrade" /\ persist.pc = "done"
     /\ persist.failed = "lookup") =>
    (~persist.threw /\ persist.answer = FALSE)

\* C16 witness: the lookup rejected for a market whose index entry is
\* OPEN, and marketHasTrade returned.
C16_Witness ==
  /\ persist.op = "marketHasTrade"
  /\ persist.pc = "done"
  /\ persist.failed = "lookup"
  /\ persist.arg[1] \in DOMAIN persist.marketTrade
  /\ persist.marketTrade[persist.arg[1]].status = "OPEN"

\* C17: getPortfolio(a) returns the portfolio most recently handed to
\* savePortfolio with agentId a, and null when there was none; it never
\* throws.
C17_GetReturnsLastSaved ==
  (persist.op = "getPortfolio" /\ persist.pc = "done") =>
    (~persist.threw /\ persist.found = persist.lastSaved[persist.arg[1]])

\* C18: saveTrade never throws: when either setCache rejects, saveTrade
\* still returns to its caller as after a successful write, and what the
\* failed setCache was to write is not in the cache because of this call.
C18_SaveTradeNeverThrows ==
  (persist.op = "saveTrade" /\ persist.pc = "done") =>
    /\ ~persist.threw
    /\ persist.failed \in {"none", "trade", "index"}
    /\ (persist.client = "store" /\ persist.failed \in {"none", "index"}) =>
         persist.trades[persist.arg[1].id] = persist.arg[1]
    /\ (persist.client = "store" /\ persist.failed = "none") =>
         persist.marketTrade[persist.arg[1].marketId].tradeId = persist.arg[1].id

\* C18 witness: saveTrade returned after the trade key was written and the
\* write of the index key failed, so the market has no index entry.
C18_Witness ==
  /\ persist.op = "saveTrade"
  /\ persist.pc = "done"
  /\ persist.failed = "index"
  /\ persist.arg[1].id \in DOMAIN persist.trades
  /\ persist.arg[1].marketId \notin DOMAIN persist.marketTrade


\* C19: the candidateMarkets of a successful result is the number of
\* entries of the markets list with volumeUsd >= minVolume and
\* liquidityUsd >= minLiquidity, for every list and profile, whatever the
\* trades and the portfolio.
C19_CandidateCount ==
  unit.fn = "candidateMarkets" =>
    unit.out = Cardinality({k \in DOMAIN unit.markets :
                              /\ unit.markets[k].volumeUsd >= unit.agent.minVolume
                              /\ unit.markets[k].liquidityUsd >= unit.agent.minLiquidity})

\* C19 witness: of two markets, the one exactly at both thresholds is
\* counted and the one just under the volume threshold is not, for a
\* portfolio with positions and a non-empty trade list.
C19_Witness ==
  /\ unit.fn = "candidateMarkets"
  /\ Len(unit.markets) = 2
  /\ unit.markets[1].volumeUsd = unit.agent.minVolume
  /\ unit.markets[1].liquidityUsd = unit.agent.minLiquidity
  /\ unit.markets[2].volumeUsd < unit.agent.minVolume
  /\ unit.markets[2].liquidityUsd > unit.agent.minLiquidity
  /\ unit.trades # <<>>
  /\ DOMAIN unit.portfolio[1].openPositions # {}
  /\ unit.out = 1

\* C20: every updatePortfolioMetrics call leaves maxDrawdownPct equal or
\* lower, and after any call it is not positive.
C20_DrawdownMonotone ==
  /\ [][unit'.fn = "updatePortfolioMetrics" /\ unit'.updates > unit.updates =>
          unit'.portfolio[1].maxDrawdownPct <= unit.portfolio[1].maxDrawdownPct]_vars
  /\ []((unit.fn = "updatePortfolioMetrics" /\ unit.updates > 0) =>
          unit.portfolio[1].maxDrawdownPct <= 0)

\* C20 witness: equity has partly recovered after a trough, and
\* maxDrawdownPct is still the drawdown of the trough.
C20_Witness ==
  /\ unit.fn = "updatePortfolioMetrics"
  /\ unit.updates >= 2
  /\ unit.portfolio[1].currentCapitalUsd > unit.previous[1].currentCapitalUsd
  /\ unit.portfolio[1].currentCapitalUsd < unit.portfolio[1].maxEquityUsd
  /\ unit.portfolio[1].maxDrawdownPct = unit.previous[1].maxDrawdownPct
  /\ unit.portfolio[1].maxDrawdownPct < 0
  /\ ((unit.portfolio[1].currentCapitalUsd - unit.portfolio[1].maxEquityUsd) * 100)
       \div unit.portfolio[1].maxEquityUsd > unit.portfolio[1].maxDrawdownPct


\* C21: for a portfolio without open positions, updatePortfolioMetrics
\* leaves unrealizedPnlUsd at 0 and sets currentCapitalUsd to
\* startingCapitalUsd + realizedPnlUsd, whatever the markets map.
C21_NoPositionsNoUnrealized ==
  (unit.fn = "updatePortfolioMetrics" /\ unit.updates > 0
     /\ DOMAIN unit.portfolio[1].openPositions = {}) =>
    /\ unit.portfolio[1].unrealizedPnlUsd = 0
    /\ unit.portfolio[1].currentCapitalUsd =
         unit.portfolio[1].startingCapitalUsd + unit.portfolio[1].realizedPnlUsd

\* C21 witness: a portfolio without positions and with realized P&L was
\* updated against a non-empty map.
C21_Witness ==
  /\ unit.fn = "updatePortfolioMetrics"
  /\ unit.updates > 0
  /\ DOMAIN unit.portfolio[1].openPositions = {}
  /\ unit.portfolio[1].realizedPnlUsd # 0
  /\ unit.markets # <<>>
  /\ unit.portfolio[1].currentCapitalUsd = 2100


\* The P&L of the position on market 1 at the price the last call was
\* given, 0 without such a position or without the market.
RepricedOnMarketOne ==
  LET pos == unit.previous[1].openPositions
  IN IF 1 \in DOMAIN pos /\ unit.markets # <<>>
     THEN IF pos[1].side = "YES"
          THEN (unit.markets[1].price - pos[1].entryPrice) * pos[1].size
          ELSE (pos[1].entryPrice - unit.markets[1].price) * pos[1].size
     ELSE 0

\* C25: updatePortfolioMetrics skips a position whose market is absent
\* from the map: the position adds nothing to the unrealized P&L and stays
\* in the portfolio, while the position whose market is present is
\* repriced in the same call.
C25_StalePositionsSkipped ==
  (unit.fn = "updatePortfolioMetrics" /\ unit.updates > 0) =>
    /\ unit.portfolio[1].unrealizedPnlUsd = RepricedOnMarketOne
    /\ unit.portfolio[1].currentCapitalUsd =
         unit.portfolio[1].startingCapitalUsd + unit.portfolio[1].realizedPnlUsd
         + RepricedOnMarketOne
    /\ unit.portfolio[1].openPositions = unit.previous[1].openPositions

\* C25 witness: of two positions, the one on the market in the map was
\* repriced to a gain and the one on the absent market was skipped.
C25_Witness ==
  /\ unit.fn = "updatePortfolioMetrics"
  /\ unit.updates > 0
  /\ DOMAIN unit.portfolio[1].openPositions = {1, 9}
  /\ unit.markets # <<>>
  /\ unit.markets[1].id = 1
  /\ unit.portfolio[1].unrealizedPnlUsd = 100


\* C22: a tick that fires while the scheduler's cycle is in flight changes
\* nothing but the count of ticks; the end of a cycle clears isRunning and
\* starts nothing; a cycle starts only in startScheduler or in a tick that
\* finds isRunning false.
C22_SkippedTickDropped ==
  [][/\ (ticks' = ticks + 1 /\ isRunning) =>
          UNCHANGED <<started, intervalId, timerMs, isRunning, schedStarts, active,
                      cycle, agents, calls>>
     /\ (InFlight("sched") /\ ~InFlight("sched")') =>
          (~isRunning' /\ schedStarts' = schedStarts /\ ticks' = ticks)
     /\ schedStarts' # schedStarts =>
          (~isRunning /\ isRunning' /\ (~started \/ ticks' = ticks + 1))]_vars

\* C22 witness: a tick fired during the first cycle, the cycle has ended,
\* the timer is still armed and no second cycle has started.
C22_Witness ==
  /\ started
  /\ intervalId # Null
  /\ ticks >= 1
  /\ schedStarts = 1
  /\ ~isRunning
  /\ cycle["sched"].phase = "fulfilled"
  /\ cycle["sched"].enabled


\* C23: while no write has failed, marketHasTrade(m) returns true exactly
\* when the trade last saved for m has status OPEN, and false for a market
\* without saved trade.
C23_HasTradeIffLastOpen ==
  (persist.op = "marketHasTrade" /\ persist.pc = "done"
     /\ persist.failed = "none" /\ ~persist.everFailed) =>
    (persist.answer <=> /\ persist.arg[1] \in DOMAIN persist.lastTrade
                        /\ persist.lastTrade[persist.arg[1]] = "OPEN")


\* C29: saveTrade writes the trade key before the index key, and when the
\* index write fails after the trade write it returns normally, leaving
\* the trade record in the cache and the index as it was.
C29_SaveTradeNotAtomic ==
  /\ []((persist.client = "store" /\ persist.pc = "setIndex") =>
          /\ persist.arg[1].id \in DOMAIN persist.trades
          /\ persist.trades[persist.arg[1].id] = persist.arg[1])
  /\ [][(persist.client = "store" /\ persist.pc = "setIndex"
           /\ persist'.pc = "done" /\ persist'.failed = "index") =>
          /\ ~persist'.threw
          /\ persist'.trades = persist.trades
          /\ persist'.marketTrade = persist.marketTrade]_vars

\* C29 witness: marketHasTrade returned false, without any failed lookup,
\* for a market that has an OPEN trade record in the cache and no index
\* entry.
C29_Witness ==
  /\ persist.client = "store"
  /\ persist.op = "marketHasTrade"
  /\ persist.pc = "done"
  /\ persist.failed = "none"
  /\ ~persist.answer
  /\ persist.arg[1] \notin DOMAIN persist.marketTrade
  /\ \E id \in DOMAIN persist.trades :
       /\ persist.trades[id].marketId = persist.arg[1]
       /\ persist.trades[id].status = "OPEN"


\* C24: in a successful result newTrades is the number of generated trades
\* with status OPEN, closedTrades the number with status CLOSED, and
\* openPositions the number of positions of the loaded or initial
\* portfolio, whatever the trades.
C24_ResultCounts ==
  \A i \in Agents :
    LET a == agents[CallSlot][i]
    IN (a.pc = "fulfilled" /\ a.result.success) =>
         /\ a.result.newTrades =
              Cardinality({k \in DOMAIN a.trades : a.trades[k] = "OPEN"})
         /\ a.result.closedTrades =
              Cardinality({k \in DOMAIN a.trades : a.trades[k] = "CLOSED"})
         /\ a.result.openPositions =
              (IF a.loaded \in {"flat", "wrapped"}
               THEN Cardinality(DOMAIN StoredPortfolio.openPositions) ELSE 0)
         /\ a.result.openPositions = Cardinality(DOMAIN a.saved[1].openPositions)

\* C24 witness: a successful cycle that loaded a portfolio with two
\* positions and was given two OPEN trades and one CLOSED trade.
C24_Witness ==
  \E i \in Agents :
    LET a == agents[CallSlot][i]
    IN /\ a.pc = "fulfilled"
       /\ a.result.success
       /\ a.loaded = "wrapped"
       /\ a.result.newTrades = 2
       /\ a.result.closedTrades = 1
       /\ a.result.openPositions = 2


\* C26: the agent cycle of agent a asks getPortfolio for a only, holds and
\* saves only a portfolio whose agentId is a, also when the record loaded
\* carried another agentId; a step of one agent cycle changes no other
\* agent cycle's state and leaves the markets list and the map as they were.
C26_AgentCyclesIsolated ==
  /\ [](\A i \in Agents :
          LET a == agents[CallSlot][i]
          IN /\ a.asked \in {<<>>, <<ALL_AGENT_IDS[i]>>}
             /\ \A k \in DOMAIN a.saved : a.saved[k].agentId = ALL_AGENT_IDS[i]
             /\ a.pc \in {"loading", "generating", "saving"} =>
                  a.portfolio.agentId = ALL_AGENT_IDS[i])
  /\ [][(cycle[CallSlot].phase = "agents" /\ cycle'[CallSlot].phase = "agents") =>
          /\ cycle'[CallSlot].markets = cycle[CallSlot].markets
          /\ cycle'[CallSlot].marketsMap = cycle[CallSlot].marketsMap
          /\ Cardinality({i \in Agents :
                            agents'[CallSlot][i].pc # agents[CallSlot][i].pc}) <= 1
          /\ \A j \in Agents :
               agents'[CallSlot][j].pc = agents[CallSlot][j].pc =>
                 agents'[CallSlot][j] = agents[CallSlot][j]]_vars

\* C26 witness: two agent cycles of one trading cycle each loaded the
\* record of agent 999 and each saved a portfolio under its own agentId.
C26_Witness ==
  \E i, j \in Agents :
    /\ i # j
    /\ agents[CallSlot][i].loaded = "flat"
    /\ agents[CallSlot][j].loaded = "wrapped"
    /\ Len(agents[CallSlot][i].saved) = 1
    /\ Len(agents[CallSlot][j].saved) = 1
    /\ agents[CallSlot][i].saved[1].agentId = ALL_AGENT_IDS[i]
    /\ agents[CallSlot][j].saved[1].agentId = ALL_AGENT_IDS[j]
    /\ agents[CallSlot][i].saved[1].openPositions = StoredPortfolio.openPositions


\* C27: when the stop function is never called, the timer keeps firing and
\* every cycle ends, the scheduler starts a new trading cycle again and
\* again, and every tick that finds no cycle in flight starts one.
C27_SchedulerLive ==
  /\ [](stopCalls = 0 /\ (started => intervalId # Null))
  /\ []<>isRunning
  /\ []<>(~isRunning)
  /\ [][(ticks' # ticks /\ ~isRunning) =>
          (isRunning' /\ cycle'["sched"].phase = "fetching"
             /\ calls'["sched"].fetchAllMarkets = 1)]_vars

\* C27 witness: after an even number of ticks, a cycle started by a tick is
\* in flight, a failed cycle lying behind it, and stop was never called.
C27_Witness ==
  /\ stopCalls = 0
  /\ schedStarts = MaxTicks + 1
  /\ ticks = 0
  /\ isRunning
  /\ cycle["sched"].phase = "agents"
  /\ cycle["sched"].previous = "rejected"


\* C28: two schedulers made by two startScheduler calls do not interfere.  A
\* tick of one scheduler is skipped exactly when that scheduler's own cycle
\* is in flight, whatever the other scheduler is doing; a step of one
\* scheduler, its stop function included, leaves the other scheduler's timer,
\* flag and cycle as they were.
C28_SchedulersIndependent ==
  [][\A k \in Closures :
       /\ schedulers'[k].ticks # schedulers[k].ticks =>
            /\ (schedulers'[k].lastTick = "skipped") <=> schedulers[k].isRunning
            /\ ~schedulers[k].isRunning =>
                 schedulers'[k].isRunning /\ schedulers'[k].cycleP = "pending"
       /\ schedulers'[k] # schedulers[k] =>
            \A j \in Closures \ {k} : schedulers'[j] = schedulers[j]]_vars

\* C28 witness: the first scheduler has been stopped with its cycle still in
\* flight, and the second, still armed, has started a cycle on a tick of its
\* own: cycles of both schedulers are in flight at the same time.
C28_Witness ==
  /\ schedulers[1].started /\ schedulers[1].intervalId = Null
  /\ schedulers[1].isRunning /\ schedulers[1].cycleP = "pending"
  /\ schedulers[2].intervalId # Null /\ schedulers[2].lastTick = "started"
  /\ schedulers[2].isRunning /\ schedulers[2].cycleP = "pending"


\* The agents whose portfolio the invocation in slot s has handed to
\* savePortfolio.
SavedAgents(s) == {i \in Agents : agents[s][i].saved # <<>>}

\* C30: runTradingCycle has no re-entrancy guard of its own.  A direct call
\* can be made whatever isRunning is and whatever invocation is in flight,
\* a further one even while the first direct invocation is in flight; and
\* each invocation makes its own calls: one of each fetcher, one
\* runAgentCycle per roster agent, and one savePortfolio for each agent it
\* has got that far with, of a portfolio of that agent.
C30_RunTradingCycleUnguarded ==
  /\ (directCalls < MaxDirect /\ ~InFlight("direct"))
       => ENABLED DirectRunTradingCycle
  /\ (directCalls < MaxDirect /\ InFlight("direct") /\ ~InFlight("again"))
       => ENABLED DirectRunTradingCycleAgain
  /\ \A s \in Slots :
       /\ InFlight(s) =>
            /\ calls[s].fetchAllMarkets = 1
            /\ calls[s].fetchLatestNews = 1
       /\ cycle[s].phase = "agents" => calls[s].runAgentCycle = NumAgents
       /\ calls[s].savePortfolio = Cardinality(SavedAgents(s))
       /\ \A i \in SavedAgents(s) :
            /\ Len(agents[s][i].saved) = 1
            /\ agents[s][i].saved[1].agentId = ALL_AGENT_IDS[i]

\* C30 witness: the scheduler's cycle and two direct invocations are in
\* flight together, and each of the three has fetched on its own and has
\* called savePortfolio for the first agent of the roster.
C30_Witness ==
  /\ isRunning
  /\ \A s \in Slots :
       /\ cycle[s].phase = "agents"
       /\ calls[s].fetchAllMarkets = 1
       /\ calls[s].fetchLatestNews = 1
       /\ calls[s].savePortfolio >= 1
       /\ 1 \in SavedAgents(s)

====
